---------------------------- MODULE Spec2Model ----------------------------
(***************************************************************************)
(* Universal Motor Controller (motor/umc.py) and its three motor backends  *)
(* (motor/hal/motozero.py, l298.py, camjam.py).                            *)
(*                                                                         *)
(* Three threads share the backend object and the heartbeat timestamp:     *)
(*   main   - run(): the MQTT network loop calling on_message and          *)
(*            on_disconnect, then cleanup()                                *)
(*   hb     - heartbeat_monitor()                                          *)
(*   st     - status_publisher()                                           *)
(* Nothing in the source locks anything, so every method body is cut into  *)
(* the steps between which another thread can run: one step per attribute  *)
(* store, per attribute load of get_status, and per group of hardware      *)
(* calls.                                                                  *)
(***************************************************************************)
EXTENDS Integers, Sequences, FiniteSets, TLC

(***************************************************************************)
(* Bounds of the model.                                                    *)
(***************************************************************************)
MaxTime == 4
MaxFaults == 1
MaxMessages == 1
MaxDisconnects == 1
MaxPublishes == 1
HeartbeatTimeout == 1
MaxTimeThreads == 2
MaxCommands == 3
MaxInbox == 2
MaxStatusCycles == 2
MaxStatusMessages == 2
MaxDuration == 2
MaxLegacySeconds == 3

(***************************************************************************)
(* Program constants.                                                      *)
(***************************************************************************)
MinPercent == 0
MaxPercent == 100
StartDefaultArg == 50
MotoZeroInitialSpeed == 0
L298InitialSpeed == 50
CamJamInitialSpeed == 50
HeartbeatInterval == 1
StatusInterval == 2

Directions == {"FORWARD", "BACKWARD", "LEFT", "RIGHT"}
ControllerTypes == {"motozero", "l298", "camjam"}

(***************************************************************************)
(* Text.  A payload is a sequence of one-character strings, so that        *)
(* strip(), upper(), split(":", 1) and int() are computed, not assumed.    *)
(* "?" stands for a byte that is not valid UTF-8.                          *)
(***************************************************************************)
LowerCase == <<"a", "b", "c", "d", "e", "f", "g", "h", "i", "j", "k", "l", "m",
               "n", "o", "p", "q", "r", "s", "t", "u", "v", "w", "x", "y", "z">>
UpperCase == <<"A", "B", "C", "D", "E", "F", "G", "H", "I", "J", "K", "L", "M",
               "N", "O", "P", "Q", "R", "S", "T", "U", "V", "W", "X", "Y", "Z">>
Digits == <<"0", "1", "2", "3", "4", "5", "6", "7", "8", "9">>
Whitespace == {" ", "\t", "\n"}

IndexIn(c, tab) == IF \E i \in DOMAIN tab : tab[i] = c
                   THEN CHOOSE i \in DOMAIN tab : tab[i] = c
                   ELSE 0

\* Mutant: the text is matched as it was written.
UpperNone(s) == s

\* str.upper().
Upper(s) == [i \in DOMAIN s |-> IF IndexIn(s[i], LowerCase) > 0
                                 THEN UpperCase[IndexIn(s[i], LowerCase)]
                                 ELSE s[i]]

RECURSIVE LStrip(_)
LStrip(s) == IF s # <<>> /\ Head(s) \in Whitespace THEN LStrip(Tail(s)) ELSE s

RECURSIVE RStrip(_)
RStrip(s) == IF s # <<>> /\ s[Len(s)] \in Whitespace
             THEN RStrip(SubSeq(s, 1, Len(s) - 1))
             ELSE s

Strip(s) == RStrip(LStrip(s))

HasColon(s) == \E i \in DOMAIN s : s[i] = ":"

FirstColon(s) == CHOOSE i \in DOMAIN s : s[i] = ":" /\ \A j \in 1..(i - 1) : s[j] # ":"

RECURSIVE DigitsValue(_, _)
DigitsValue(s, acc) == IF s = <<>> THEN acc
                       ELSE DigitsValue(Tail(s), 10 * acc + (IndexIn(Head(s), Digits) - 1))

AllDigits(s) == s # <<>> /\ \A i \in DOMAIN s : IndexIn(s[i], Digits) > 0

\* Python's int(text): surrounding whitespace is allowed, then an optional
\* sign, then decimal digits; anything else raises ValueError.
IntOf(text) ==
    LET t == Strip(text)
        signed == t # <<>> /\ Head(t) \in {"+", "-"}
        body == IF signed THEN Tail(t) ELSE t
    IN IF AllDigits(body)
       THEN [ok |-> TRUE,
             val |-> IF signed /\ Head(t) = "-" THEN 0 - DigitsValue(body, 0)
                     ELSE DigitsValue(body, 0)]
       ELSE [ok |-> FALSE, val |-> 0]

Decodable(payload) == \A i \in DOMAIN payload : payload[i] # "?"


(***************************************************************************)
(* Motor backends.  The backend object is the record                       *)
(*   [type, current_speed, current_direction, is_moving,                   *)
(*    out_dir, out_speed, last_prim, released]                             *)
(* current_speed is the percentage the object stores: l298 stores the      *)
(* integer itself, motozero and camjam store the float percent / 100.0,    *)
(* kept here as the integer percent it was computed from.  out_dir and     *)
(* out_speed are what the hardware is driven with (motor values, or the    *)
(* L298 input pins and PWM duty cycle), last_prim the last hardware        *)
(* primitive applied.                                                      *)
(***************************************************************************)
Op(k, d, v) == [k |-> k, d |-> d, v |-> v]

InitialSpeed(type) == IF type = "motozero" THEN MotoZeroInitialSpeed
                      ELSE IF type = "l298" THEN L298InitialSpeed
                      ELSE CamJamInitialSpeed

NewBackend(type) ==
    [type |-> type,
     current_speed |-> InitialSpeed(type),
     current_direction |-> "STOPPED",
     is_moving |-> FALSE,
     out_dir |-> "STOPPED",
     out_speed |-> 0,
     last_prim |-> "none",
     released |-> FALSE]

\* Mutant: the percentage is stored as it comes.
ClampNone(p) == p

\* set_speed, lines 26-29.
Clamp(p) == IF p < MinPercent THEN MinPercent
            ELSE IF p > MaxPercent THEN MaxPercent
            ELSE p

\* int(current_speed * 100) where current_speed = p / 100.0 in IEEE-754
\* doubles: the product falls just below p for 29, 57 and 58 and int()
\* truncates.
IntOfSpeedTimes100(p) == IF p \in {29, 57, 58} THEN p - 1 ELSE p

StatusSpeed(h) == IF h.type = "l298" THEN h.current_speed
                  ELSE IntOfSpeedTimes100(h.current_speed)

\* _apply_current_movement of motozero and camjam: no branch for STOPPED.
ApplyCurrentMovement(h) ==
    IF h.current_direction \in Directions
    THEN [h EXCEPT !.out_dir = h.current_direction,
                   !.out_speed = h.current_speed,
                   !.last_prim = "drive"]
    ELSE h

\* The L298 pin pattern of direction d and both duty cycles.
L298Drive(h, d) == [h EXCEPT !.out_dir = d,
                             !.out_speed = h.current_speed,
                             !.last_prim = "drive"]

L298Duty(h) == [h EXCEPT !.out_speed = h.current_speed, !.last_prim = "duty"]

\* Mutant: set_speed keeps the speed it had.
StoreSpeedKept(h, p) == h

\* set_speed, lines 26-31.
StoreSpeed(h, p) == [h EXCEPT !.current_speed = Clamp(p)]

\* Mutant: a new speed is only stored.
ReapplyNever(h) == h

\* Mutant: a new speed is applied to the hardware whether the robot moves
\* or not.
ReapplyAlways(h) == IF h.type = "l298" THEN L298Duty(h) ELSE ApplyCurrentMovement(h)

\* set_speed, lines 33-35 (l298.py lines 56-58).
Reapply(h) == IF ~h.is_moving THEN h
              ELSE IF h.type = "l298" THEN L298Duty(h)
              ELSE ApplyCurrentMovement(h)

StoreDirection(h, d) == [h EXCEPT !.current_direction = d]

StoreMoving(h, b) == [h EXCEPT !.is_moving = b]

Drive(h, d) == IF h.type = "l298" THEN L298Drive(h, d) ELSE ApplyCurrentMovement(h)

HwStop(h) == [h EXCEPT !.out_dir = "STOPPED", !.out_speed = 0, !.last_prim = "stop"]

Release(h) == [h EXCEPT !.released = TRUE]

\* One step of a backend method.
HalStep(h, op) ==
    CASE op.k = "store_speed" -> StoreSpeed(h, op.v)
      [] op.k = "reapply" -> Reapply(h)
      [] op.k = "store_direction" -> StoreDirection(h, op.d)
      [] op.k = "store_moving" -> StoreMoving(h, op.v = 1)
      [] op.k = "drive" -> Drive(h, op.d)
      [] op.k = "hw_stop" -> HwStop(h)
      [] op.k = "release" -> Release(h)
      [] OTHER -> h

\* The steps that call into the hardware library, which can raise.
HwCall(h, op) ==
    \/ op.k = "hw_stop"
    \/ op.k = "drive" /\ (h.type = "l298" \/ h.current_direction \in Directions)
    \/ op.k = "reapply" /\ h.is_moving
         /\ (h.type = "l298" \/ h.current_direction \in Directions)
    \/ op.k = "release" /\ h.type = "l298"

SetSpeedOps(p) == <<Op("store_speed", "", p), Op("reapply", "", 0)>>

\* Mutant: a start operation stops the motors before it turns them.
StartOpsViaStop(d, p) == <<Op("hw_stop", "", 0)>>
                         \o SetSpeedOps(p) \o <<Op("store_direction", d, 0),
                                                Op("store_moving", "", 1),
                                                Op("drive", d, 0)>>

\* start_forward, start_backward, start_left, start_right: set_speed, the
\* two attributes, then the hardware.
StartOps(d, p) == SetSpeedOps(p) \o <<Op("store_direction", d, 0),
                                      Op("store_moving", "", 1),
                                      Op("drive", d, 0)>>

\* Mutant: stop() only drives the hardware.
StopOpsHardwareOnly == <<Op("hw_stop", "", 0)>>

\* stop(): the hardware first, then the two attributes.
StopOps == <<Op("hw_stop", "", 0),
             Op("store_direction", "STOPPED", 0),
             Op("store_moving", "", 0)>>

\* Mutant: reading the status ends the movement.
GetStatusOpsResetting == <<Op("load_speed", "", 0), Op("load_direction", "", 0),
                           Op("load_moving", "", 0),
                           Op("store_direction", "STOPPED", 0),
                           Op("store_moving", "", 0)>>

\* get_status: the three attribute loads of the dictionary display.
GetStatusOps == <<Op("load_speed", "", 0), Op("load_direction", "", 0),
                  Op("load_moving", "", 0)>>

HalCleanupOps == StopOps \o <<Op("release", "", 0)>>

RECURSIVE RunOps(_, _)
RunOps(h, ops) == IF ops = <<>> THEN h ELSE RunOps(HalStep(h, Head(ops)), Tail(ops))

\* Mutant: the later dictionary replaces the earlier one.
OverrideOnlyNew(f, g) == g

\* A dictionary f after the items of g have been assigned to it.
Override(f, g) == [x \in DOMAIN f \cup DOMAIN g |-> IF x \in DOMAIN g THEN g[x] ELSE f[x]]

\* The items CamJamController.get_status adds to the three common ones.
StatusExtras(h) == [left_motor_speed |-> h.current_speed,
                    right_motor_speed |-> h.current_speed]

GetStatus(h) == [speed_percent |-> StatusSpeed(h),
                 direction |-> h.current_direction,
                 is_moving |-> h.is_moving]


(***************************************************************************)
(* Command text.                                                           *)
(***************************************************************************)
TxtStart == <<"S", "T", "A", "R", "T", "_">>
TxtForward == <<"F", "O", "R", "W", "A", "R", "D">>
TxtBackward == <<"B", "A", "C", "K", "W", "A", "R", "D">>
TxtLeft == <<"L", "E", "F", "T">>
TxtRight == <<"R", "I", "G", "H", "T">>
TxtStop == <<"S", "T", "O", "P">>
TxtSpeed == <<"S", "P", "E", "E", "D">>
TxtStatus == <<"S", "T", "A", "T", "U", "S">>
TxtEmergencyStop == <<"E", "M", "E", "R", "G", "E", "N", "C", "Y", "_">> \o TxtStop
TxtEStop == <<"E", "_">> \o TxtStop

\* Mutant: a value that is no integer is replaced by the default speed.
ParseCommandLenient(command, default_speed) ==
    LET c == Upper(command)
    IN IF HasColon(c)
       THEN LET i == FirstColon(c)
                n == IntOf(SubSeq(c, i + 1, Len(c)))
            IN [ok |-> TRUE, cmd |-> SubSeq(c, 1, i - 1),
                value |-> IF n.ok THEN n.val ELSE default_speed]
       ELSE [ok |-> TRUE, cmd |-> c, value |-> default_speed]

\* process_command, lines 134-146: upper-case, split at the first ":" and
\* convert the value, or take the configured default speed.
ParseCommand(command, default_speed) ==
    LET c == Upper(command)
    IN IF HasColon(c)
       THEN LET i == FirstColon(c)
                n == IntOf(SubSeq(c, i + 1, Len(c)))
            IN [ok |-> n.ok, cmd |-> SubSeq(c, 1, i - 1), value |-> n.val]
       ELSE [ok |-> TRUE, cmd |-> c, value |-> default_speed]

\* The text of a number as the command sender formats it.
RECURSIVE DecimalOf(_)
DecimalOf(n) == IF n < 10 THEN <<Digits[n + 1]>>
                ELSE DecimalOf(n \div 10) \o <<Digits[(n % 10) + 1]>>

MovementCommands == {TxtStart \o TxtForward, TxtForward, TxtStart \o TxtBackward,
                     TxtBackward, TxtStart \o TxtLeft, TxtLeft, TxtStart \o TxtRight,
                     TxtRight}

\* The direction a long-form movement command asks for.
DirectionOf(cmd) ==
    CASE cmd \in {TxtStart \o TxtForward, TxtForward} -> "FORWARD"
      [] cmd \in {TxtStart \o TxtBackward, TxtBackward} -> "BACKWARD"
      [] cmd \in {TxtStart \o TxtLeft, TxtLeft} -> "LEFT"
      [] cmd \in {TxtStart \o TxtRight, TxtRight} -> "RIGHT"
      [] OTHER -> "STOPPED"

LegacyCommands == {<<"F">>, <<"B">>, <<"L">>, <<"R">>, <<"S">>}

EmergencyCommands == {TxtEmergencyStop, TxtEStop}

\* The long-form text a legacy command stands for, at speed d.
LongFormOf(cmd, d) ==
    CASE cmd = <<"F">> -> TxtStart \o TxtForward \o <<":">> \o DecimalOf(d)
      [] cmd = <<"B">> -> TxtStart \o TxtBackward \o <<":">> \o DecimalOf(d)
      [] cmd = <<"L">> -> TxtStart \o TxtLeft \o <<":">> \o DecimalOf(d)
      [] cmd = <<"R">> -> TxtStart \o TxtRight \o <<":">> \o DecimalOf(d)
      [] OTHER -> TxtStop

\* Mutant: the status path stops the motors before it reads them.
PublishStatusOpsStopping == <<Op("hw_stop", "", 0)>> \o GetStatusOps
                            \o <<Op("publish", "", 0)>>

\* Mutant: every status is emitted twice.
PublishStatusOpsTwice == GetStatusOps \o <<Op("publish", "", 0), Op("publish", "", 0)>>

\* publish_status, lines 210-216.
PublishStatusOps == GetStatusOps \o <<Op("publish", "", 0)>>

\* process_command, lines 149-203: the backend method each command calls.
CommandOps(cmd, value) ==
    CASE cmd \in {TxtStart \o TxtForward, TxtForward} -> StartOps("FORWARD", value)
      [] cmd \in {TxtStart \o TxtBackward, TxtBackward} -> StartOps("BACKWARD", value)
      [] cmd \in {TxtStart \o TxtLeft, TxtLeft} -> StartOps("LEFT", value)
      [] cmd \in {TxtStart \o TxtRight, TxtRight} -> StartOps("RIGHT", value)
      [] cmd = TxtStop -> StopOps
      [] cmd = TxtSpeed -> SetSpeedOps(value)
      [] cmd = TxtStatus -> PublishStatusOps
      [] cmd \in {TxtEmergencyStop, TxtEStop} -> StopOps
      [] cmd = <<"F">> -> StartOps("FORWARD", StartDefaultArg)
      [] cmd = <<"B">> -> StartOps("BACKWARD", StartDefaultArg)
      [] cmd = <<"L">> -> StartOps("LEFT", StartDefaultArg)
      [] cmd = <<"R">> -> StartOps("RIGHT", StartDefaultArg)
      [] cmd = <<"S">> -> StopOps
      [] OTHER -> <<>>

KnownCommand(cmd) ==
    cmd \in {TxtStart \o TxtForward, TxtForward, TxtStart \o TxtBackward, TxtBackward,
             TxtStart \o TxtLeft, TxtLeft, TxtStart \o TxtRight, TxtRight,
             TxtStop, TxtSpeed, TxtStatus, TxtEmergencyStop, TxtEStop,
             <<"F">>, <<"B">>, <<"L">>, <<"R">>, <<"S">>}

\* What process_command does with the stripped text: the steps to run and
\* how the text was classified.
ProcessCommand(command, default_speed) ==
    LET p == ParseCommand(command, default_speed)
    IN IF ~p.ok THEN [ops |-> <<>>, class |-> "invalid"]
       ELSE [ops |-> CommandOps(p.cmd, p.value),
             class |-> IF KnownCommand(p.cmd) THEN "known" ELSE "unknown"]

(***************************************************************************)
(* Payloads the transport delivers.                                        *)
(***************************************************************************)
MsgStartForward50 == TxtStart \o TxtForward \o <<":", "5", "0">>
MsgLeft29 == <<"l", "e", "f", "t", ":", "2", "9">>
MsgSpeed90 == TxtSpeed \o <<":", "9", "0">>
MsgSpeedAbc == TxtSpeed \o <<":", "a", "b", "c">>
MsgBogus == <<"B", "O", "G", "U", "S">>
MsgUndecodable == <<"?">>
MsgStartBackward150 == TxtStart \o TxtBackward \o <<":", "1", "5", "0">>
MsgBackward150 == <<"B", "a", "c", "k", "w", "a", "r", "d", ":", "1", "5", "0">>
MsgStartLeft29 == TxtStart \o TxtLeft \o <<":", "2", "9">>
MsgForward50 == <<"\t">> \o TxtForward \o <<":", "5", "0", " ">>
MsgEStopSpaced == <<" ", "e", "_", "s", "t", "o", "p", "\n">>
MsgBogus7 == <<"B", "O", "G", "U", "S", ":", "7">>
MsgStop7 == TxtStop \o <<":", "7">>
MsgStopNow == TxtStop \o <<":", "n", "o", "w">>
MsgEmergencyStopNow == TxtEmergencyStop \o <<":", "N", "O", "W">>

Messages == {MsgStartForward50, TxtStop, MsgSpeed90, MsgSpeedAbc, TxtStatus,
             MsgBogus, MsgBogus7, MsgUndecodable}


(***************************************************************************)
(* Controller state.                                                       *)
(*   motor_hal       the backend object (self.motor_hal)                   *)
(*   config          the configuration values the handlers read            *)
(*   last_heartbeat, running   attributes of the controller                *)
(*   now             time.time(), in whole seconds                         *)
(*   pc, todo        per thread: where it is, and the steps left of the    *)
(*                   method calls it is executing                          *)
(*   snap            per thread: the dictionary get_status is building     *)
(*   nap             per thread: the seconds left of its time.sleep()      *)
(*   published       the last status record handed to the transport        *)
(* History, written but never read by the program's steps:                 *)
(*   budget          what is left of the messages, disconnects, hardware   *)
(*                   faults, status cycles and seconds the bounds allow    *)
(*   outcome         how the last inbound message ended                    *)
(*   last_reset      when the monitor last reset last_heartbeat            *)
(*   quiet           no message or disconnect has arrived since the        *)
(*                   monitor last found a timeout                          *)
(*   shutdown_log    the events of cleanup(), in order                     *)
(*   late_call       a periodic thread entered a backend method after the  *)
(*                   backend's cleanup() returned                          *)
(*   called          the backend method a test script called last, with    *)
(*                   its arguments                                         *)
(*   handled         the text of the last message given to process_command *)
(*                   and the backend object as on_message found it         *)
(* The transport:                                                          *)
(*   inbox           the messages the network loop has received and not    *)
(*                   yet given to on_message, oldest first                 *)
(* The construction of the controller object:                              *)
(*   startup         file: what is found at the path of config_file;       *)
(*                   json: the document a valid file holds; type: the      *)
(*                   local controller_type of __init__; attrs: the         *)
(*                   attributes assigned to self so far; error: the        *)
(*                   exception that left __init__ or run(), if any         *)
(***************************************************************************)
VARIABLES motor_hal, config, last_heartbeat, running, now, pc, todo, snap, nap,
          published, budget, outcome, last_reset, quiet, shutdown_log, late_call,
          called, handled, inbox, startup

vars == <<motor_hal, config, last_heartbeat, running, now, pc, todo, snap, nap,
          published, budget, outcome, last_reset, quiet, shutdown_log, late_call,
          called, handled, inbox, startup>>

Threads == {"main", "hb", "st"}
\* Values of motor_settings.default_speed_percent in the configuration file.
DefaultSpeeds == {50, 30, 29}

NoSnap == [speed_percent |-> -1, direction |-> "", is_moving |-> FALSE]
NoStatus == [speed_percent |-> -1, direction |-> "", is_moving |-> FALSE,
             timestamp |-> -1, controller_type |-> ""]
NoCall == [op |-> "", d |-> "", p |-> 0]
Never == -1 - HeartbeatTimeout

\* The attributes __init__ assigns (lines 17 and 21), and those of lines
\* 52-64.
InitAttributes == {"config", "motor_hal"}
ControllerAttributes == {"mqtt_client", "last_heartbeat", "heartbeat_timeout",
                         "heartbeat_monitoring", "status_thread", "running"}

TypeText(type) ==
    CASE type = "motozero" -> <<"m", "o", "t", "o", "z", "e", "r", "o">>
      [] type = "l298" -> <<"l", "2", "9", "8">>
      [] type = "camjam" -> <<"c", "a", "m", "j", "a", "m">>
      [] OTHER -> <<>>

\* What is common to the initial states: the attributes of lines 52-64.
\* The lines stand after the return of _create_motor_controller, where
\* __init__ does not reach them; every handler reads these attributes, and
\* the specifications start from the object that has them.
InitController ==
    /\ last_heartbeat = 0
    /\ running = FALSE
    /\ now = 0
    /\ pc = [t \in Threads |-> IF t = "main" THEN "new" ELSE "none"]
    /\ todo = [t \in Threads |-> <<>>]
    /\ snap = [t \in Threads |-> NoSnap]
    /\ nap = [t \in Threads |-> 0]
    /\ published = NoStatus
    /\ outcome = "none"
    /\ last_reset = Never
    /\ quiet = FALSE
    /\ shutdown_log = <<>>
    /\ late_call = FALSE
    /\ called = NoCall
    /\ handled = [text |-> <<>>, before |-> motor_hal]
    /\ inbox = <<>>
    /\ startup = [file |-> "valid",
                  json |-> [type |-> TypeText(motor_hal.type),
                            default_speed |-> config.default_speed,
                            heartbeat_monitoring |-> config.heartbeat_monitoring,
                            auto_stop_on_disconnect |-> config.auto_stop_on_disconnect],
                  type |-> TypeText(motor_hal.type),
                  attrs |-> InitAttributes \cup ControllerAttributes,
                  error |-> ""]

Budget(seconds) == [messages |-> MaxMessages, disconnects |-> MaxDisconnects,
                    faults |-> MaxFaults, publishes |-> MaxPublishes,
                    seconds |-> seconds]

\* motozero.py and camjam.py have the same methods line for line, so the
\* specifications with threads take one of the two.
ThreadedTypes == {"motozero", "l298"}

\* The backend of lines 20-21 and the configuration of line 17.
Init ==
    /\ motor_hal \in {NewBackend(t) : t \in ThreadedTypes}
    /\ config \in [default_speed : {StartDefaultArg},
                   heartbeat_monitoring : BOOLEAN,
                   auto_stop_on_disconnect : BOOLEAN]
    /\ budget = Budget(MaxTime)
    /\ InitController

history == <<budget, outcome, last_reset, quiet, handled, inbox>>

\* cleanup(), lines 288-291.  The tag marks the last step of the stop() of
\* line 289.
CleanupOps ==
    <<Op("clear_running", "", 0),
      Op("hw_stop", "", 0),
      Op("store_direction", "STOPPED", 0),
      Op("store_moving", "final_stop", 0)>>
    \o HalCleanupOps
    \o <<Op("mqtt_disconnect", "", 0)>>

\* heartbeat_monitor, lines 228-230.
TimeoutOps == StopOps \o <<Op("reset_heartbeat", "", 0)>>

\* Mutant: the status thread ends after a publish.
ContinueEndsPublisher(p) ==
    CASE p \in {"message", "disconnect"} -> "loop"
      [] p = "cleanup" -> "done"
      [] p = "stopping" -> "sleep"
      [] p = "publishing" -> "dead"
      [] OTHER -> p

\* Where a thread goes on when the calls it was executing have returned.
Continue(p) ==
    CASE p \in {"message", "disconnect"} -> "loop"
      [] p = "cleanup" -> "done"
      [] p \in {"stopping", "publishing"} -> "sleep"
      [] OTHER -> p

\* The interpreter exits when run() has returned or raised in the main
\* thread, and the daemon threads end with it.
Alive == pc["main"] # "done"

\* Thread t has executed the first step of todo[t].
Advance(t) ==
    LET rest == Tail(todo[t])
    IN /\ todo' = [todo EXCEPT ![t] = rest]
       /\ pc' = [pc EXCEPT ![t] = IF rest = <<>> THEN Continue(pc[t]) ELSE pc[t]]
       /\ nap' = [nap EXCEPT ![t] = IF rest = <<>> /\ t # "main"
                                     THEN (IF t = "hb" THEN HeartbeatInterval
                                           ELSE StatusInterval)
                                     ELSE nap[t]]

Ready(t, kinds) == Alive /\ todo[t] # <<>> /\ Head(todo[t]).k \in kinds

\* A periodic thread takes the first step of a backend method after the
\* backend was released.
LateCall(t, op) ==
    /\ t # "main"
    /\ motor_hal.released
    /\ op.k \in {"store_speed", "hw_stop", "load_speed"}

\* A step of a backend method that writes one attribute.
HalStore(t) ==
    /\ Ready(t, {"store_speed", "store_direction", "store_moving"})
    /\ LET op == Head(todo[t])
       IN /\ motor_hal' = HalStep(motor_hal, op)
          /\ late_call' = (late_call \/ LateCall(t, op))
          /\ shutdown_log' = IF op.d = "final_stop"
                             THEN Append(shutdown_log, "stop") ELSE shutdown_log
    /\ Advance(t)
    /\ UNCHANGED <<config, startup, last_heartbeat, running, now, snap, published, history,
                   called>>

\* A step of a backend method that drives the hardware, the call returning.
HalHardware(t) ==
    /\ Ready(t, {"reapply", "drive", "hw_stop", "release"})
    /\ LET op == Head(todo[t])
       IN /\ motor_hal' = HalStep(motor_hal, op)
          /\ late_call' = (late_call \/ LateCall(t, op))
          /\ shutdown_log' = IF op.k = "release"
                             THEN Append(shutdown_log, "release") ELSE shutdown_log
    /\ Advance(t)
    /\ UNCHANGED <<config, startup, last_heartbeat, running, now, snap, published, history,
                   called>>

\* The hardware call of the thread's next step raises.  In process_command
\* the exception is caught and printed (line 205); in on_disconnect it
\* leaves loop_forever and run() goes to cleanup() (lines 281-284); in
\* cleanup() it leaves run(); in heartbeat_monitor it ends the thread.
HalRaises(t) ==
    /\ Ready(t, {"reapply", "drive", "hw_stop", "release"})
    /\ HwCall(motor_hal, Head(todo[t]))
    /\ budget.faults > 0
    /\ budget' = [budget EXCEPT !.faults = @ - 1]
    /\ late_call' = (late_call \/ LateCall(t, Head(todo[t])))
    /\ pc' = [pc EXCEPT ![t] = CASE pc[t] = "message" -> "loop"
                                 [] pc[t] = "disconnect" -> "cleanup"
                                 [] pc[t] = "cleanup" -> "done"
                                 [] OTHER -> "dead"]
    /\ todo' = [todo EXCEPT ![t] = IF pc[t] = "disconnect" THEN CleanupOps ELSE <<>>]
    /\ outcome' = IF pc[t] = "message" THEN "raised" ELSE outcome
    /\ UNCHANGED <<motor_hal, config, startup, last_heartbeat, running, now, snap, nap,
                   published, last_reset, quiet, shutdown_log, called, handled,
                   inbox>>

\* get_status: one attribute load of the dictionary display.
HalLoad(t) ==
    /\ Ready(t, {"load_speed", "load_direction", "load_moving"})
    /\ LET op == Head(todo[t])
       IN /\ snap' = [snap EXCEPT ![t] =
                CASE op.k = "load_speed" ->
                        [NoSnap EXCEPT !.speed_percent = StatusSpeed(motor_hal)]
                  [] op.k = "load_direction" ->
                        [@ EXCEPT !.direction = motor_hal.current_direction]
                  [] OTHER ->
                        IF motor_hal.type = "camjam"
                        THEN Override([@ EXCEPT !.is_moving = motor_hal.is_moving],
                                      StatusExtras(motor_hal))
                        ELSE [@ EXCEPT !.is_moving = motor_hal.is_moving]]
          /\ late_call' = (late_call \/ LateCall(t, op))
    /\ Advance(t)
    /\ UNCHANGED <<motor_hal, config, startup, last_heartbeat, running, now, published,
                   history, shutdown_log, called>>

\* publish_status, lines 211-216, the publish succeeding: the two items are
\* assigned to the dictionary get_status returned.
Publish(t) ==
    /\ Ready(t, {"publish"})
    /\ published' = Override(snap[t], [timestamp |-> now,
                                       controller_type |-> motor_hal.type])
    /\ snap' = [snap EXCEPT ![t] = NoSnap]
    /\ Advance(t)
    /\ UNCHANGED <<motor_hal, config, startup, last_heartbeat, running, now, history,
                   shutdown_log, late_call, called>>

\* publish_status, lines 216-219: the transport raises, which is printed.
PublishRaises(t) ==
    /\ Ready(t, {"publish"})
    /\ snap' = [snap EXCEPT ![t] = NoSnap]
    /\ Advance(t)
    /\ UNCHANGED <<motor_hal, config, startup, last_heartbeat, running, now, published,
                   history, shutdown_log, late_call, called>>

\* cleanup(), line 288.
ClearRunning(t) ==
    /\ Ready(t, {"clear_running"})
    /\ running' = FALSE
    /\ startup' = [startup EXCEPT !.attrs = @ \cup {"running"}]
    /\ Advance(t)
    /\ UNCHANGED <<motor_hal, config, last_heartbeat, now, snap, published,
                   history, shutdown_log, late_call, called>>

\* cleanup(), lines 291-292.  Without the attribute mqtt_client line 291
\* raises AttributeError, which leaves cleanup() and run().
MqttDisconnect(t) ==
    /\ Ready(t, {"mqtt_disconnect"})
    /\ startup' = IF "mqtt_client" \in startup.attrs THEN startup
                  ELSE [startup EXCEPT !.error = "AttributeError"]
    /\ Advance(t)
    /\ UNCHANGED <<motor_hal, config, last_heartbeat, running, now, snap,
                   published, history, shutdown_log, late_call, called>>

\* Mutant: the timestamp is left as it was after the forced stop.
HeartbeatAfterTimeoutKept(old, t) == old

\* heartbeat_monitor, line 230.
HeartbeatAfterTimeout(old, t) == t

\* heartbeat_monitor, lines 229-230.
ResetHeartbeat(t) ==
    /\ Ready(t, {"reset_heartbeat"})
    /\ last_heartbeat' = HeartbeatAfterTimeout(last_heartbeat, now)
    /\ last_reset' = now
    /\ Advance(t)
    /\ UNCHANGED <<motor_hal, config, startup, running, now, snap, published, budget,
                   outcome, quiet, shutdown_log, late_call, called, handled,
                   inbox>>

\* Mutant: the monitor thread is started whatever the configuration says.
StartHeartbeatMonitorAlways(heartbeat_monitoring) == "sleep"

\* start_heartbeat_monitor, lines 246-248: where the monitor thread is
\* after the call.
StartHeartbeatMonitor(heartbeat_monitoring) ==
    IF heartbeat_monitoring THEN "sleep" ELSE "none"

\* run(), lines 253-277: the broker accepts the connection, both threads
\* are started and the network loop is entered.
RunConnects ==
    /\ pc["main"] = "new"
    /\ "mqtt_client" \in startup.attrs
    /\ running' = TRUE
    /\ pc' = [main |-> "loop",
              st |-> "sleep",
              hb |-> StartHeartbeatMonitor(config.heartbeat_monitoring)]
    /\ UNCHANGED <<motor_hal, config, startup, last_heartbeat, now, todo, snap, nap,
                   published, history, shutdown_log, late_call, called>>

\* run(), lines 258 and 281-284: connect() raises.
RunConnectRaises ==
    /\ pc["main"] = "new"
    /\ "mqtt_client" \in startup.attrs
    /\ pc' = [pc EXCEPT !["main"] = "cleanup"]
    /\ todo' = [todo EXCEPT !["main"] = CleanupOps]
    /\ UNCHANGED <<motor_hal, config, startup, last_heartbeat, running, now, snap, nap,
                   published, history, shutdown_log, late_call, called>>

\* Mutant: only a command that is recognised counts as a heartbeat.
HeartbeatOnMessageKnownOnly(r, old, t) == IF r.class = "known" THEN t ELSE old

\* Mutant: a status request does not count as a heartbeat.
HeartbeatOnMessageNotForStatus(r, old, t) == IF r.ops = PublishStatusOps THEN old ELSE t

\* on_message, line 124: the timestamp is stored before the command is
\* looked at, whatever process_command makes of it (r).
HeartbeatOnMessage(r, old, t) == t

\* on_message, lines 119-130, called by the network loop with one message.
HandleMessage(payload) ==
    /\ pc["main"] = "loop"
    /\ budget.messages > 0
    /\ budget' = [budget EXCEPT !.messages = @ - 1]
    /\ quiet' = FALSE
    /\ IF ~Decodable(payload)
       THEN /\ outcome' = "undecodable"
            /\ UNCHANGED <<last_heartbeat, pc, todo, handled>>
       ELSE LET r == ProcessCommand(Strip(payload), config.default_speed)
            IN /\ last_heartbeat' = HeartbeatOnMessage(r, last_heartbeat, now)
               /\ outcome' = r.class
               /\ handled' = [text |-> Strip(payload), before |-> motor_hal]
               /\ todo' = [todo EXCEPT !["main"] = r.ops]
               /\ pc' = [pc EXCEPT !["main"] = IF r.ops = <<>> THEN "loop" ELSE "message"]
    /\ UNCHANGED <<motor_hal, config, startup, running, now, snap, nap, published,
                   last_reset, shutdown_log, late_call, called>>

\* A message arrives while the network loop waits, and is handled at once.
OnMessage(payload) == HandleMessage(payload) /\ UNCHANGED inbox

\* Mutant: the disconnect is only printed.
DisconnectOpsPrintOnly(auto_stop) == <<>>

\* on_disconnect, lines 113-115.
DisconnectOps(auto_stop) == IF auto_stop THEN StopOps ELSE <<>>

\* on_disconnect, lines 110-115.
OnDisconnect ==
    /\ pc["main"] = "loop"
    /\ budget.disconnects > 0
    /\ budget' = [budget EXCEPT !.disconnects = @ - 1]
    /\ quiet' = FALSE
    /\ todo' = [todo EXCEPT !["main"] = DisconnectOps(config.auto_stop_on_disconnect)]
    /\ pc' = [pc EXCEPT !["main"] = IF todo'["main"] = <<>> THEN "loop" ELSE "disconnect"]
    /\ UNCHANGED <<motor_hal, config, startup, last_heartbeat, running, now, snap, nap,
                   published, outcome, last_reset, shutdown_log, late_call,
                   called, handled, inbox>>

\* run(), lines 279-284: KeyboardInterrupt reaches the main thread while it
\* waits in loop_forever.
Interrupt ==
    /\ pc["main"] = "loop"
    /\ pc' = [pc EXCEPT !["main"] = "cleanup"]
    /\ todo' = [todo EXCEPT !["main"] = CleanupOps]
    /\ snap' = [snap EXCEPT !["main"] = NoSnap]
    /\ UNCHANGED <<motor_hal, config, startup, last_heartbeat, running, now, nap,
                   published, history, shutdown_log, late_call, called>>

\* time.sleep() of thread t has returned, or t has just been started.
Awake(t) == Alive /\ pc[t] = "sleep" /\ nap[t] = 0

\* heartbeat_monitor, lines 223-232: the loop test and the timeout test.
HeartbeatLoop ==
    /\ Awake("hb")
    /\ IF ~running
       THEN /\ pc' = [pc EXCEPT !["hb"] = "exit"]
            /\ UNCHANGED <<todo, nap, quiet>>
       ELSE IF config.heartbeat_monitoring
               /\ now - last_heartbeat > HeartbeatTimeout
            THEN /\ pc' = [pc EXCEPT !["hb"] = "stopping"]
                 /\ todo' = [todo EXCEPT !["hb"] = TimeoutOps]
                 /\ quiet' = TRUE
                 /\ UNCHANGED nap
            ELSE /\ nap' = [nap EXCEPT !["hb"] = HeartbeatInterval]
                 /\ UNCHANGED <<todo, pc, quiet>>
    /\ UNCHANGED <<motor_hal, config, startup, last_heartbeat, running, now, snap,
                   published, budget, outcome, last_reset, shutdown_log, late_call,
                   called, handled, inbox>>

\* status_publisher, lines 237-238.
StatusLoop ==
    /\ Awake("st")
    /\ IF ~running
       THEN /\ pc' = [pc EXCEPT !["st"] = "exit"]
            /\ UNCHANGED <<todo, budget>>
       ELSE /\ budget.publishes > 0
            /\ budget' = [budget EXCEPT !.publishes = @ - 1]
            /\ pc' = [pc EXCEPT !["st"] = "publishing"]
            /\ todo' = [todo EXCEPT !["st"] = PublishStatusOps]
    /\ UNCHANGED <<motor_hal, config, startup, last_heartbeat, running, now, snap, nap,
                   published, outcome, last_reset, quiet, shutdown_log, late_call,
                   called, handled, inbox>>

\* A second passes.
Tick ==
    /\ Alive
    /\ budget.seconds > 0
    /\ budget' = [budget EXCEPT !.seconds = @ - 1]
    /\ now' = now + 1
    /\ nap' = [t \in Threads |-> IF nap[t] > 0 THEN nap[t] - 1 ELSE 0]
    /\ UNCHANGED <<motor_hal, config, startup, last_heartbeat, running, pc, todo, snap,
                   published, outcome, last_reset, quiet, shutdown_log, late_call,
                   called, handled, inbox>>

\* The main thread and the heartbeat monitor.
NextMonitor ==
    \/ RunConnects
    \/ RunConnectRaises
    \/ \E m \in Messages : OnMessage(m)
    \/ OnDisconnect
    \/ Interrupt
    \/ HeartbeatLoop
    \/ Tick
    \/ \E t \in Threads : HalStore(t)
    \/ \E t \in Threads : HalHardware(t)
    \/ \E t \in Threads : HalRaises(t)
    \/ \E t \in Threads : HalLoad(t)
    \/ \E t \in Threads : Publish(t)
    \/ \E t \in Threads : PublishRaises(t)
    \/ \E t \in Threads : ClearRunning(t)
    \/ \E t \in Threads : MqttDisconnect(t)
    \/ \E t \in Threads : ResetHeartbeat(t)

SpecMonitor == Init /\ [][NextMonitor]_vars

\* The configuration in which all three threads run.
InitThreads ==
    /\ motor_hal \in {NewBackend(t) : t \in ThreadedTypes}
    /\ config = [default_speed |-> StartDefaultArg,
                 heartbeat_monitoring |-> TRUE,
                 auto_stop_on_disconnect |-> TRUE]
    /\ budget = Budget(MaxTimeThreads)
    /\ InitController

\* The main thread, the heartbeat monitor and the status publisher.
Next ==
    \/ NextMonitor
    \/ StatusLoop

Spec == InitThreads /\ [][Next]_vars


(***************************************************************************)
(* The command path alone: the network loop hands one message after the    *)
(* other to on_message, and process_command runs each to its end or to the *)
(* exception it catches.                                                   *)
(***************************************************************************)
CommandMessages == {MsgStartForward50, MsgLeft29, <<"F">>, <<"B">>, <<"S">>,
                    TxtStop, MsgSpeed90, TxtEStop, (TxtStart \o TxtForward), TxtRight,
                    MsgStartBackward150, MsgSpeedAbc, MsgEStopSpaced}

InitCommands ==
    /\ motor_hal \in {NewBackend(t) : t \in ThreadedTypes}
    /\ config \in [default_speed : DefaultSpeeds,
                   heartbeat_monitoring : {FALSE},
                   auto_stop_on_disconnect : {TRUE}]
    /\ budget = [Budget(0) EXCEPT !.messages = MaxCommands]
    /\ InitController

NextCommands ==
    \/ RunConnects
    \/ \E m \in CommandMessages : OnMessage(m)
    \/ HalStore("main")
    \/ HalHardware("main")
    \/ HalRaises("main")

SpecCommands == InitCommands /\ [][NextCommands]_vars

(***************************************************************************)
(* The command path with the stop commands in every form: alone, with an   *)
(* integer after the ":" and with other text after it.                     *)
(***************************************************************************)
StopMessages == {MsgStartForward50, TxtStop, MsgStop7, MsgStopNow, <<"S">>,
                 TxtEStop, MsgEmergencyStopNow}

InitStops ==
    /\ motor_hal \in {NewBackend(t) : t \in ControllerTypes}
    /\ config = [default_speed |-> StartDefaultArg,
                 heartbeat_monitoring |-> FALSE,
                 auto_stop_on_disconnect |-> TRUE]
    /\ budget = [Budget(0) EXCEPT !.messages = MaxCommands]
    /\ InitController

NextStops ==
    \/ RunConnects
    \/ \E m \in StopMessages : OnMessage(m)
    \/ HalStore("main")
    \/ HalHardware("main")
    \/ HalRaises("main")

SpecStops == InitStops /\ [][NextStops]_vars

(***************************************************************************)
(* The command path with the transport in front of it: messages arrive     *)
(* while on_message is busy and wait in the order of arrival until         *)
(* loop_forever calls on_message again.                                    *)
(***************************************************************************)
InboxMessages == {MsgStartForward50, MsgSpeed90, TxtEStop}

InitInbox ==
    /\ motor_hal \in {NewBackend(t) : t \in ThreadedTypes}
    /\ config = [default_speed |-> StartDefaultArg,
                 heartbeat_monitoring |-> FALSE,
                 auto_stop_on_disconnect |-> TRUE]
    /\ budget = [Budget(0) EXCEPT !.messages = MaxCommands]
    /\ InitController

\* The broker delivers a message to the client's socket.
Arrive(m) ==
    /\ pc["main"] \in {"loop", "message"}
    /\ Len(inbox) < MaxInbox
    /\ Len(inbox) < budget.messages
    /\ inbox' = Append(inbox, m)
    /\ UNCHANGED <<motor_hal, config, startup, last_heartbeat, running, now, pc, todo, snap,
                   nap, published, budget, outcome, last_reset, quiet,
                   shutdown_log, late_call, called, handled>>

\* Mutant: the message that arrived last is handled first.
DispatchNewestFirst ==
    /\ inbox # <<>>
    /\ HandleMessage(inbox[Len(inbox)])
    /\ inbox' = SubSeq(inbox, 1, Len(inbox) - 1)

\* loop_forever takes the oldest waiting message and calls on_message.
Dispatch ==
    /\ inbox # <<>>
    /\ HandleMessage(Head(inbox))
    /\ inbox' = Tail(inbox)

NextInbox ==
    \/ RunConnects
    \/ \E m \in InboxMessages : Arrive(m)
    \/ Dispatch
    \/ HalStore("main")
    \/ HalHardware("main")
    \/ HalRaises("main")

SpecInbox == InitInbox /\ [][NextInbox]_vars


(***************************************************************************)
(* The status path: the main thread handling commands and the status       *)
(* publisher, on every backend, the transport failing or not.              *)
(***************************************************************************)
StatusMessages == {MsgStartForward50, TxtStatus, TxtStop}

InitStatus ==
    /\ motor_hal \in {NewBackend(t) : t \in ControllerTypes}
    /\ config = [default_speed |-> StartDefaultArg,
                 heartbeat_monitoring |-> FALSE,
                 auto_stop_on_disconnect |-> TRUE]
    /\ budget = [Budget(MaxTimeThreads) EXCEPT !.messages = MaxStatusMessages,
                                               !.publishes = MaxStatusCycles]
    /\ InitController

NextStatus ==
    \/ RunConnects
    \/ \E m \in StatusMessages : OnMessage(m)
    \/ StatusLoop
    \/ Tick
    \/ HalStore("main")
    \/ HalHardware("main")
    \/ \E t \in {"main", "st"} : HalLoad(t)
    \/ \E t \in {"main", "st"} : Publish(t)
    \/ \E t \in {"main", "st"} : PublishRaises(t)

SpecStatus == InitStatus /\ [][NextStatus]_vars


(***************************************************************************)
(* The construction of the controller, umc = UniversalMotorController(     *)
(* config_file), followed by umc.run(), as the last lines of umc.py do it. *)
(***************************************************************************)
DefaultSpeedPercent == 50

\* str.lower().
Lower(s) == [i \in DOMAIN s |-> IF IndexIn(s[i], UpperCase) > 0
                                 THEN LowerCase[IndexIn(s[i], UpperCase)]
                                 ELSE s[i]]

\* controller_map, lines 27-34: the backend a type text names, "" when the
\* text is no key of the map.
ControllerMap(text) ==
    CASE text = TypeText("motozero") -> "motozero"
      [] text = TypeText("l298") -> "l298"
      [] text = TypeText("camjam") -> "camjam"
      [] OTHER -> ""

\* get_default_config.
GetDefaultConfig == [type |-> TypeText("motozero"),
                     default_speed |-> DefaultSpeedPercent,
                     heartbeat_monitoring |-> TRUE,
                     auto_stop_on_disconnect |-> TRUE]

\* The values of motor_controller.type in the configuration files tried.
FileTypes == {TypeText("motozero"), TypeText("camjam"), <<"L", "2", "9", "8">>,
              <<"s", "e", "r", "v", "o">>}

Documents == [type : FileTypes,
              default_speed : {30},
              heartbeat_monitoring : BOOLEAN,
              auto_stop_on_disconnect : BOOLEAN]

NoDocument == [type |-> <<>>, default_speed |-> 0, heartbeat_monitoring |-> FALSE,
               auto_stop_on_disconnect |-> FALSE]

NoBackend == [NewBackend("") EXCEPT !.current_speed = 0]

\* Before __init__ runs: the object has no attribute, and the path of
\* config_file leads to no file, to a file that is no JSON, or to a
\* configuration document.
InitStartup ==
    /\ startup \in {[file |-> "valid", json |-> j, type |-> <<>>, attrs |-> {},
                      error |-> ""] : j \in Documents}
                 \cup {[file |-> f, json |-> NoDocument, type |-> <<>>, attrs |-> {},
                        error |-> ""] : f \in {"missing", "not_json"}}
    /\ config = [default_speed |-> 0, heartbeat_monitoring |-> FALSE,
                 auto_stop_on_disconnect |-> FALSE]
    /\ motor_hal = NoBackend
    /\ budget = Budget(0)
    /\ last_heartbeat = 0
    /\ running = FALSE
    /\ now = 0
    /\ pc = [t \in Threads |-> IF t = "main" THEN "init" ELSE "none"]
    /\ todo = [t \in Threads |-> <<>>]
    /\ snap = [t \in Threads |-> NoSnap]
    /\ nap = [t \in Threads |-> 0]
    /\ published = NoStatus
    /\ outcome = "none"
    /\ last_reset = Never
    /\ quiet = FALSE
    /\ shutdown_log = <<>>
    /\ late_call = FALSE
    /\ called = NoCall
    /\ handled = [text |-> <<>>, before |-> NoBackend]
    /\ inbox = <<>>

\* __init__, line 17, and load_config, lines 66-73: json.load of the file,
\* the defaults when there is no file; any other exception leaves __init__.
LoadConfig ==
    /\ pc["main"] = "init"
    /\ IF startup.file = "not_json"
       THEN /\ pc' = [pc EXCEPT !["main"] = "failed"]
            /\ startup' = [startup EXCEPT !.error = "JSONDecodeError"]
            /\ UNCHANGED config
       ELSE LET doc == IF startup.file = "missing" THEN GetDefaultConfig
                       ELSE startup.json
            IN /\ pc' = [pc EXCEPT !["main"] = "loaded"]
               /\ config' = [default_speed |-> doc.default_speed,
                             heartbeat_monitoring |-> doc.heartbeat_monitoring,
                             auto_stop_on_disconnect |-> doc.auto_stop_on_disconnect]
               /\ startup' = [startup EXCEPT !.json = doc,
                                             !.attrs = @ \cup {"config"}]
    /\ UNCHANGED <<motor_hal, last_heartbeat, running, now, todo, snap, nap,
                   published, history, shutdown_log, late_call, called>>

\* __init__, lines 20-21, and _create_motor_controller, lines 27-50: the
\* backend is made and returned at line 50, which is where the method ends.
CreateMotorController ==
    /\ pc["main"] = "loaded"
    /\ LET controller_type == Lower(startup.json.type)
       IN IF ControllerMap(controller_type) = ""
          THEN /\ pc' = [pc EXCEPT !["main"] = "failed"]
               /\ startup' = [startup EXCEPT !.type = controller_type,
                                             !.error = "ValueError"]
               /\ UNCHANGED motor_hal
          ELSE /\ pc' = [pc EXCEPT !["main"] = "new"]
               /\ motor_hal' = NewBackend(ControllerMap(controller_type))
               /\ startup' = [startup EXCEPT !.type = controller_type,
                                             !.attrs = @ \cup {"motor_hal"}]
    /\ UNCHANGED <<config, last_heartbeat, running, now, todo, snap, nap,
                   published, history, shutdown_log, late_call, called>>

\* _create_motor_controller, lines 38-50: the module cannot be imported, or
\* the constructor of the backend raises for want of the hardware.
CreateRaises ==
    /\ pc["main"] = "loaded"
    /\ ControllerMap(Lower(startup.json.type)) # ""
    /\ budget.faults > 0
    /\ budget' = [budget EXCEPT !.faults = @ - 1]
    /\ pc' = [pc EXCEPT !["main"] = "failed"]
    /\ startup' = [startup EXCEPT !.type = Lower(startup.json.type),
                                  !.error = "ImportError"]
    /\ UNCHANGED <<motor_hal, config, last_heartbeat, running, now, todo, snap,
                   nap, published, outcome, last_reset, quiet, shutdown_log,
                   late_call, called, handled, inbox>>

\* run(), lines 252-258 and 281-284, on an object without the attribute
\* mqtt_client: line 258 raises AttributeError, which is printed, and
\* cleanup() is called.
RunWithoutClient ==
    /\ pc["main"] = "new"
    /\ "mqtt_client" \notin startup.attrs
    /\ pc' = [pc EXCEPT !["main"] = "cleanup"]
    /\ todo' = [todo EXCEPT !["main"] = CleanupOps]
    /\ UNCHANGED <<motor_hal, config, startup, last_heartbeat, running, now, snap,
                   nap, published, history, shutdown_log, late_call, called>>

NextStartup ==
    \/ LoadConfig
    \/ CreateMotorController
    \/ CreateRaises
    \/ RunWithoutClient
    \/ ClearRunning("main")
    \/ HalStore("main")
    \/ HalHardware("main")
    \/ HalRaises("main")
    \/ MqttDisconnect("main")

SpecStartup == InitStartup /\ [][NextStartup]_vars


(***************************************************************************)
(* The backend driven directly by one thread, as test_motor.py drives it:  *)
(* each call runs to its end before the next.                              *)
(***************************************************************************)
PercentMargin == 5
Percents == (MinPercent - PercentMargin)..(MaxPercent + PercentMargin)

InitBackend ==
    /\ motor_hal \in {NewBackend(t) : t \in ControllerTypes}
    /\ config = [default_speed |-> StartDefaultArg,
                 heartbeat_monitoring |-> TRUE,
                 auto_stop_on_disconnect |-> TRUE]
    /\ budget = Budget(0)
    /\ InitController

controller == <<config, startup, last_heartbeat, running, now, pc, todo, nap, published,
                budget, outcome, last_reset, quiet, shutdown_log, late_call,
                handled, inbox>>

\* start_forward, start_backward, start_left, start_right.
BackendStart(d, p) ==
    /\ motor_hal' = RunOps(motor_hal, StartOps(d, p))
    /\ called' = [op |-> "start", d |-> d, p |-> p]
    /\ snap' = [snap EXCEPT !["main"] = NoSnap]
    /\ UNCHANGED controller

\* set_speed.
BackendSetSpeed(p) ==
    /\ motor_hal' = RunOps(motor_hal, SetSpeedOps(p))
    /\ called' = [op |-> "set_speed", d |-> "", p |-> p]
    /\ snap' = [snap EXCEPT !["main"] = NoSnap]
    /\ UNCHANGED controller

\* stop.  stop() takes no argument: p counts the calls of stop() since the
\* last call that could move the robot, as 1 or 2.
BackendStop ==
    /\ motor_hal' = RunOps(motor_hal, StopOps)
    /\ called' = [op |-> "stop", d |-> "", p |-> IF called.op = "stop" THEN 2 ELSE 1]
    /\ snap' = [snap EXCEPT !["main"] = NoSnap]
    /\ UNCHANGED controller

\* get_status, the dictionary kept in snap.
BackendGetStatus ==
    /\ snap' = [snap EXCEPT !["main"] = GetStatus(motor_hal)]
    /\ UNCHANGED <<motor_hal, called>>
    /\ UNCHANGED controller

NextBackend ==
    \/ \E d \in Directions, p \in Percents : BackendStart(d, p)
    \/ \E p \in Percents : BackendSetSpeed(p)
    \/ BackendStop
    \/ BackendGetStatus

SpecBackend == InitBackend /\ [][NextBackend]_vars


(***************************************************************************)
(* The deprecated functions of the backends, forward, backward, left and   *)
(* right with a duration, called by one thread as test_legacy_functions    *)
(* calls them, step by step, between calls of stop, set_speed and          *)
(* get_status.                                                             *)
(***************************************************************************)
\* Mutant: the pulse is not ended.
LegacyOpsUnended(d, duration) == StartOps(d, StartDefaultArg)

\* forward, backward, left, right (motozero.py lines 111-145): start_* with
\* its default speed, and for a duration above 0 the sleep and stop().
LegacyOps(d, duration) ==
    IF duration > 0
    THEN StartOps(d, StartDefaultArg) \o <<Op("sleep", "", duration)>> \o StopOps
    ELSE StartOps(d, StartDefaultArg)

InitLegacy ==
    /\ motor_hal \in {NewBackend(t) : t \in ControllerTypes}
    /\ config = [default_speed |-> StartDefaultArg,
                 heartbeat_monitoring |-> TRUE,
                 auto_stop_on_disconnect |-> TRUE]
    /\ budget = Budget(MaxLegacySeconds)
    /\ InitController

\* The script is between two calls.
Idle == todo["main"] = <<>>

\* The script calls forward, backward, left or right.
LegacyCall(d, duration) ==
    /\ Idle
    /\ todo' = [todo EXCEPT !["main"] = LegacyOps(d, duration)]
    /\ called' = [op |-> "legacy", d |-> d, p |-> duration]
    /\ snap' = [snap EXCEPT !["main"] = NoSnap]
    /\ UNCHANGED <<motor_hal, config, startup, last_heartbeat, running, now, pc, nap,
                   published, history, shutdown_log, late_call>>

\* time.sleep(duration) of a legacy function returns.
LegacySleep(t) ==
    /\ Ready(t, {"sleep"})
    /\ budget.seconds >= Head(todo[t]).v
    /\ budget' = [budget EXCEPT !.seconds = @ - Head(todo[t]).v]
    /\ now' = now + Head(todo[t]).v
    /\ todo' = [todo EXCEPT ![t] = Tail(todo[t])]
    /\ UNCHANGED <<motor_hal, config, startup, last_heartbeat, running, pc, snap, nap,
                   published, outcome, last_reset, quiet, shutdown_log, late_call,
                   called, handled, inbox>>

NextLegacy ==
    \/ \E d \in Directions, duration \in 0..MaxDuration : LegacyCall(d, duration)
    \/ LegacySleep("main")
    \/ HalStore("main")
    \/ HalHardware("main")
    \/ Idle /\ BackendSetSpeed(MaxPercent)
    \/ Idle /\ BackendStop
    \/ Idle /\ BackendGetStatus

SpecLegacy == InitLegacy /\ [][NextLegacy]_vars

(***************************************************************************)
(* Properties.                                                             *)
(***************************************************************************)
Stopped(h) == h.current_direction = "STOPPED" /\ ~h.is_moving

MessageArrives == budget'.messages < budget.messages

DisconnectArrives == budget'.disconnects < budget.disconnects

\* C1: when a tick of the monitor has found more than the timeout elapsed
\* and nothing has arrived meanwhile, the tick leaves the motion state at
\* direction = STOPPED, is_moving = false and last_heartbeat at the current
\* time.
C1_TimeoutTickStops ==
    [][(pc["hb"] = "stopping" /\ pc'["hb"] # "stopping" /\ quiet')
         => (Stopped(motor_hal') /\ last_heartbeat' = now')]_vars

\* C2: the monitor decides to stop only when more than the timeout has
\* passed since its own last reset, and each decision is one call of stop()
\* followed by one reset.
C2_OneStopPerBreach ==
    [][(pc["hb"] # "stopping" /\ pc'["hb"] = "stopping")
         => (/\ now - last_reset > HeartbeatTimeout
             /\ todo'["hb"] = StopOps \o <<Op("reset_heartbeat", "", 0)>>)]_vars

\* C2 witness: the monitor has reset last_heartbeat once and now stops a
\* second time.
C2_SecondStop == last_reset >= 0 /\ pc["hb"] = "stopping" /\ budget.faults = MaxFaults

\* C3: a message that process_command recognises as a command sets
\* last_heartbeat to the time it arrives.
C3_CommandRefreshes ==
    [][(MessageArrives /\ outcome' = "known") => last_heartbeat' = now]_vars

\* C3 witness: a STATUS request is being handled, later than the last
\* timestamp, and last_heartbeat is the time of its arrival.
C3_StatusRefreshed ==
    /\ outcome = "known"
    /\ pc["main"] = "message"
    /\ todo["main"] = PublishStatusOps
    /\ now > 0
    /\ last_heartbeat = now

\* C4: a message whose value after ":" is no integer leaves last_heartbeat
\* as it was.
C4_InvalidKeepsHeartbeat ==
    [][(MessageArrives /\ outcome' = "invalid") => last_heartbeat' = last_heartbeat]_vars

\* C5: when a hardware call raised while a command was applied, the motion
\* state is direction = STOPPED, is_moving = false.
C5_RaisedFallsBackToStopped == outcome = "raised" => Stopped(motor_hal)

\* C8: when run() is left, the stop() of cleanup() has been applied and then
\* the backend has been released.
C8_StopThenRelease == pc["main"] = "done" => shutdown_log = <<"stop", "release">>

\* C9: a disconnect with auto_stop_on_disconnect enters stop() at once,
\* whatever the heartbeat state, and the motion state is stopped when the
\* handler returns; without the flag the disconnect changes nothing of the
\* backend and the main thread stays in the loop.
C9_DisconnectStops ==
    [][/\ (DisconnectArrives /\ config.auto_stop_on_disconnect)
            => (pc'["main"] = "disconnect" /\ Head(todo'["main"]).k = "hw_stop")
       /\ (pc["main"] = "disconnect" /\ pc'["main"] = "loop")
            => (Stopped(motor_hal') /\ motor_hal'.out_dir = "STOPPED")
       /\ (DisconnectArrives /\ ~config.auto_stop_on_disconnect)
            => (motor_hal' = motor_hal /\ pc'["main"] = "loop" /\ todo' = todo)]_vars

\* C9 witness: the robot was driving forward, no timeout had been found, and
\* the disconnect handler has just stopped it.
C9_StoppedByDisconnect ==
    /\ budget.disconnects < MaxDisconnects
    /\ config.auto_stop_on_disconnect
    /\ pc["main"] = "loop"
    /\ last_reset = Never
    /\ motor_hal.type = "motozero"
    /\ motor_hal.last_prim = "stop"
    /\ motor_hal.current_speed = 50
    /\ Stopped(motor_hal)


\* Thread t is between the first and the last step of a backend method.
InsideBackend(t) ==
    /\ todo[t] # <<>>
    /\ Head(todo[t]).k \in {"reapply", "store_direction", "store_moving", "drive",
                            "release", "load_direction", "load_moving"}

\* C6: no two threads are inside methods of the backend object at the same
\* time.
C6_MutualExclusion ==
    \A t, u \in Threads : (InsideBackend(t) /\ InsideBackend(u)) => t = u

\* C7: once the backend's cleanup() has returned, neither periodic thread
\* enters a backend method.
C7_NoCallAfterRelease == ~late_call

\* C10: get_status() right after startX(percent), percent in 0..100, reports
\* is_moving = true, direction = X and speed_percent = percent.
C10_StatusAfterStart ==
    (called.op = "start" /\ called.p \in MinPercent..MaxPercent /\ snap["main"] # NoSnap)
        => snap["main"] = [speed_percent |-> called.p,
                           direction |-> called.d,
                           is_moving |-> TRUE]


\* The step is a call of set_speed, or of stop, by the test script.
SetSpeedCalled == called'.op = "set_speed" /\ snap'["main"] = NoSnap

StopCalled == called'.op = "stop" /\ snap'["main"] = NoSnap

\* C11: between the operations of the backend, is_moving holds exactly when
\* the direction is not STOPPED, and the reported speed_percent lies in
\* 0..100, whatever integers the operations were called with.
C11_MotionInvariant ==
    /\ motor_hal.is_moving = (motor_hal.current_direction # "STOPPED")
    /\ StatusSpeed(motor_hal) >= MinPercent
    /\ StatusSpeed(motor_hal) <= MaxPercent

\* C11 witness: a start operation was called with more than 100 and the
\* robot moves at 100.
C11_ClampedWhileMoving ==
    /\ called.op = "start"
    /\ called.p > MaxPercent
    /\ motor_hal.is_moving
    /\ motor_hal.current_direction = called.d
    /\ StatusSpeed(motor_hal) = MaxPercent

\* C12: after set_speed(p) the reported speed_percent is min(100, max(0, p)).
C12_SetSpeedClamps ==
    called.op = "set_speed"
        => StatusSpeed(motor_hal) = (IF called.p < MinPercent THEN MinPercent
                                     ELSE IF called.p > MaxPercent THEN MaxPercent
                                     ELSE called.p)

\* C13: set_speed(p) called while is_moving drives the hardware in the
\* current direction at the clamped speed within the call, and leaves
\* direction and is_moving as they were.
C13_SetSpeedReapplies ==
    [][(SetSpeedCalled /\ motor_hal.is_moving)
         => (/\ motor_hal'.out_dir = motor_hal.current_direction
             /\ motor_hal'.out_speed = (IF called'.p < MinPercent THEN MinPercent
                                        ELSE IF called'.p > MaxPercent THEN MaxPercent
                                        ELSE called'.p)
             /\ motor_hal'.current_direction = motor_hal.current_direction
             /\ motor_hal'.is_moving)]_vars

\* C13 witness: the robot turns left and set_speed was called with more
\* than 100; the motors are driven to the left at 100.
C13_SpeedChangedWhileMoving ==
    /\ called.op = "set_speed"
    /\ called.p > MaxPercent
    /\ motor_hal.is_moving
    /\ motor_hal.current_direction = "LEFT"
    /\ motor_hal.out_dir = "LEFT"
    /\ motor_hal.out_speed = MaxPercent

\* C14: stop() called in any state leaves direction = STOPPED,
\* is_moving = false and the stop primitive applied, and a stop() that
\* follows a stop() changes nothing of the backend.
C14_StopIdempotent ==
    [][StopCalled
         => (/\ Stopped(motor_hal')
             /\ motor_hal'.last_prim = "stop"
             /\ motor_hal'.out_dir = "STOPPED"
             /\ motor_hal'.out_speed = 0
             /\ (called'.p > 1 => motor_hal' = motor_hal))]_vars

\* C14 witness: the robot had been set to full speed and stop() has been
\* called twice in a row.
C14_StoppedTwice ==
    /\ called.op = "stop"
    /\ called.p > 1
    /\ motor_hal.current_speed = MaxPercent
    /\ motor_hal.last_prim = "stop"
    /\ Stopped(motor_hal)


\* A start operation called by process_command is under way.
StartInFlight ==
    /\ pc["main"] = "message"
    /\ todo["main"] # <<>>
    /\ todo["main"][Len(todo["main"])].k = "drive"

\* C15: while a start operation runs that found the robot moving in another
\* direction, no step applies the stop primitive and every state it passes
\* through has is_moving = true and a direction other than STOPPED.
C15_NoStopBetween ==
    [][(/\ StartInFlight
        /\ handled.before.is_moving
        /\ handled.before.current_direction # todo["main"][Len(todo["main"])].d)
         => (/\ Head(todo["main"]).k # "hw_stop"
             /\ motor_hal'.is_moving
             /\ motor_hal'.current_direction \in Directions
             /\ (motor_hal'.last_prim = "stop" => motor_hal.last_prim = "stop"))]_vars

\* C15 witness: the robot drove forward and LEFT:29 is half applied: the
\* direction is stored, the motors still run forward, at the new speed.
C15_MidTransition ==
    /\ StartInFlight
    /\ Head(todo["main"]).k = "drive"
    /\ handled.before.is_moving
    /\ handled.before.current_direction = "FORWARD"
    /\ motor_hal.current_direction = "LEFT"
    /\ motor_hal.is_moving
    /\ motor_hal.out_dir = "FORWARD"
    /\ motor_hal.out_speed = 29


\* What process_command parsed from the last message, and whether it has
\* returned from it.
HandledCommand == ParseCommand(handled.text, config.default_speed)

Returned == pc["main"] = "loop" /\ handled.text # <<>>

\* C16: when process_command has returned from a STOP, the motion state is
\* direction = STOPPED, is_moving = false and the last primitive applied to
\* the hardware is stop, with no drive signal left.
C16_StopLeavesStopped ==
    (Returned /\ HandledCommand.cmd = TxtStop)
        => (/\ Stopped(motor_hal)
            /\ motor_hal.last_prim = "stop"
            /\ motor_hal.out_dir = "STOPPED"
            /\ motor_hal.out_speed = 0)

\* C17: an emergency stop that waits in the transport is the next message
\* on_message is called with, whatever was queued before it, and when it
\* has been processed the backend is as STOP would have left it.
C17_EmergencyStopFirst ==
    [][/\ (/\ Len(inbox') < Len(inbox)
           /\ \E i \in DOMAIN inbox : Upper(Strip(inbox[i])) \in EmergencyCommands)
            => Upper(Strip(Head(inbox))) \in EmergencyCommands
       /\ (/\ pc["main"] = "message"
           /\ pc'["main"] = "loop"
           /\ outcome' = "known"
           /\ HandledCommand.cmd \in EmergencyCommands)
            => motor_hal' = RunOps(handled.before,
                                   ProcessCommand(TxtStop, config.default_speed).ops)]_vars

\* C18: when process_command has returned from F, B, L, R or S, the motion
\* state is the one START_FORWARD:d, START_BACKWARD:d, START_LEFT:d,
\* START_RIGHT:d or STOP yields from the same prior state, d being the
\* configured default speed.
C18_LegacyAsLongForm ==
    (Returned /\ outcome = "known" /\ HandledCommand.cmd \in LegacyCommands)
        => GetStatus(motor_hal)
             = GetStatus(RunOps(handled.before,
                                ProcessCommand(LongFormOf(HandledCommand.cmd,
                                                          config.default_speed),
                                               config.default_speed).ops))

\* C19: when process_command has returned from a movement command whose
\* value lies outside 0..100, the robot moves in the command's direction
\* with speed_percent equal to the configured default speed.
C19_OutOfRangeUsesDefault ==
    (/\ Returned
     /\ outcome = "known"
     /\ HasColon(handled.text)
     /\ HandledCommand.cmd \in MovementCommands
     /\ (HandledCommand.value < MinPercent \/ HandledCommand.value > MaxPercent))
        => GetStatus(motor_hal) = [speed_percent |-> config.default_speed,
                                   direction |-> DirectionOf(HandledCommand.cmd),
                                   is_moving |-> TRUE]

\* C20: when process_command has returned from a long-form movement command
\* without a value, the robot moves in the command's direction with
\* speed_percent equal to the configured default speed.
C20_MissingValueUsesDefault ==
    (/\ Returned
     /\ outcome = "known"
     /\ ~HasColon(handled.text)
     /\ HandledCommand.cmd \in MovementCommands)
        => GetStatus(motor_hal) = [speed_percent |-> config.default_speed,
                                   direction |-> DirectionOf(HandledCommand.cmd),
                                   is_moving |-> TRUE]


\* C21: a movement command that finds the robot moving in the direction it
\* asks for keeps direction and is_moving at every step, applies no stop
\* primitive, and has driven the motors in that direction at the new speed
\* when it returns; the new speed of a long-form command is its clamped
\* value.
C21_SameDirectionUpdatesSpeed ==
    [][(/\ StartInFlight
        /\ handled.before.is_moving
        /\ handled.before.current_direction = todo["main"][Len(todo["main"])].d)
         => (/\ Head(todo["main"]).k # "hw_stop"
             /\ motor_hal'.is_moving
             /\ motor_hal'.current_direction = handled.before.current_direction
             /\ (motor_hal'.last_prim = "stop" => motor_hal.last_prim = "stop")
             /\ (pc'["main"] = "loop" /\ outcome' = "known")
                  => (/\ motor_hal'.out_dir = handled.before.current_direction
                      /\ motor_hal'.out_speed = motor_hal'.current_speed
                      /\ HandledCommand.cmd \in MovementCommands
                           => motor_hal'.current_speed
                                = (IF HandledCommand.value < MinPercent THEN MinPercent
                                   ELSE IF HandledCommand.value > MaxPercent
                                        THEN MaxPercent
                                   ELSE HandledCommand.value)
                      /\ motor_hal'.last_prim # "stop"))]_vars

\* C21 witness: the robot drove forward at 50 and START_FORWARD without a
\* value has been processed with the default 30: the motors run forward at
\* 30.
C21_ForwardAgainSlower ==
    /\ Returned
    /\ outcome = "known"
    /\ handled.text = (TxtStart \o TxtForward)
    /\ handled.before.is_moving
    /\ handled.before.current_direction = "FORWARD"
    /\ handled.before.out_speed = StartDefaultArg
    /\ config.default_speed = 30
    /\ motor_hal.current_direction = "FORWARD"
    /\ motor_hal.is_moving
    /\ motor_hal.out_dir = "FORWARD"
    /\ motor_hal.out_speed = 30

\* The text has a ":" and what follows it is no integer.
Malformed(text) ==
    /\ HasColon(text)
    /\ ~IntOf(SubSeq(text, FirstColon(text) + 1, Len(text))).ok

\* C23: a command with a malformed integer after ":" is discarded: the
\* handler has returned to the network loop with nothing left to do, the
\* backend is as the message found it, and the message is classed invalid,
\* so the next message is taken as any other.
C23_MalformedDiscarded ==
    (handled.text # <<>> /\ Malformed(handled.text))
        => (/\ pc["main"] = "loop"
            /\ todo["main"] = <<>>
            /\ outcome = "invalid"
            /\ motor_hal = handled.before)

\* C23 witness: SPEED:abc arrived while the robot was moving, the motion is
\* as before and another message can still be handled.
C23_DiscardedWhileMoving ==
    /\ handled.text = MsgSpeedAbc
    /\ outcome = "invalid"
    /\ pc["main"] = "loop"
    /\ motor_hal.is_moving
    /\ motor_hal.out_dir = "LEFT"
    /\ motor_hal.out_speed = 29
    /\ budget.messages > 0

\* Pairs of payloads that spell one command in two ways: case, surrounding
\* whitespace, and the two names of a command.
AliasPairs == {<<MsgLeft29, MsgStartLeft29>>,
               <<MsgStartBackward150, MsgBackward150>>,
               <<MsgStartForward50, MsgForward50>>,
               <<MsgEStopSpaced, TxtEmergencyStop>>,
               <<(TxtStart \o TxtForward), TxtForward>>}

\* C24: when a command has been processed, the backend is in the state the
\* other spelling of the command yields from the same prior state.
C24_SpellingsAgree ==
    \A pair \in AliasPairs :
        (Returned /\ outcome = "known" /\ handled.text = Strip(pair[1]))
            => motor_hal = RunOps(handled.before,
                                  ProcessCommand(Strip(pair[2]),
                                                 config.default_speed).ops)

\* C24 witness: "left:29" has been processed and the robot, which drove
\* forward, turns left at 29 as START_LEFT:29 makes it.
C24_LowerCaseLeft ==
    /\ Returned
    /\ outcome = "known"
    /\ handled.text = MsgLeft29
    /\ handled.before.current_direction = "FORWARD"
    /\ motor_hal.current_direction = "LEFT"
    /\ motor_hal.out_dir = "LEFT"
    /\ motor_hal.out_speed = 29


\* C22: a message whose action token is not recognised, with or without an
\* integer value, starts no backend call and leaves the backend object as
\* it is, and sets last_heartbeat to the time it arrives.
C22_UnknownOnlyHeartbeat ==
    [][(MessageArrives /\ outcome' = "unknown")
         => (/\ motor_hal' = motor_hal
             /\ todo'["main"] = <<>>
             /\ pc'["main"] = "loop"
             /\ last_heartbeat' = now)]_vars

\* C22 witness: BOGUS:7 has arrived later than the start, the monitor never
\* having reset the timestamp: the backend is untouched and last_heartbeat
\* is the time of arrival.
C22_BogusRefreshed ==
    /\ outcome = "unknown"
    /\ handled.text = MsgBogus7
    /\ motor_hal = handled.before
    /\ pc["main"] = "loop"
    /\ last_reset = Never
    /\ now > 0
    /\ last_heartbeat = now


\* The motion state the backend object holds.
MotionOf(h) == <<h.current_direction, h.current_speed, h.is_moving>>

\* Thread t is about to store an attribute inside a call of start_*,
\* set_speed or stop made by a command, the disconnect handler, cleanup()
\* or the heartbeat monitor.
StoringInCall(t) ==
    /\ pc[t] \in {"message", "disconnect", "cleanup", "stopping"}
    /\ todo[t] # <<>>
    /\ Head(todo[t]).k \in {"store_speed", "store_direction", "store_moving"}
    /\ \A i \in DOMAIN todo[t] : todo[t][i].k \notin {"load_speed", "load_direction",
                                                       "load_moving", "publish"}

\* C25: direction, speed and is_moving change only in a step in which the
\* main thread or the heartbeat monitor stores an attribute inside start_*,
\* set_speed or stop; the passing of time, the status reads and every other
\* step leave them as they are.
C25_ContinuousMotion ==
    [][MotionOf(motor_hal') # MotionOf(motor_hal)
         => \E t \in {"main", "hb"} :
                StoringInCall(t) /\ todo'[t] = Tail(todo[t])]_vars

\* C25 witness: START_FORWARD:50 arrived at time 0; time has passed, a
\* status read later than the command has reported the movement, and the
\* robot still drives forward at 50.
C25_StillMoving ==
    /\ handled.text = MsgStartForward50
    /\ last_heartbeat = 0
    /\ last_reset = Never
    /\ now > 1
    /\ published.timestamp > 0
    /\ published.is_moving
    /\ published.direction = "FORWARD"
    /\ motor_hal.is_moving
    /\ motor_hal.current_direction = "FORWARD"
    /\ motor_hal.out_dir = "FORWARD"
    /\ motor_hal.out_speed = StartDefaultArg


\* The steps of the status path: get_status and the publish.
StatusKinds == {"load_speed", "load_direction", "load_moving", "publish"}

\* Thread t takes a step of the status path.
StatusStep(t) ==
    /\ todo[t] # <<>>
    /\ Head(todo[t]).k \in StatusKinds
    /\ todo'[t] = Tail(todo[t])

\* C26: no step of the status publisher and no step of a publish, periodic
\* or on demand, changes the backend object or drives the hardware, and the
\* next step of the status thread can always be taken, wherever the
\* command handler is.
C26_StatusReadOnly ==
    /\ [][((\E t \in Threads : StatusStep(t))
            \/ pc'["st"] # pc["st"] \/ todo'["st"] # todo["st"])
              => motor_hal' = motor_hal]_vars
    /\ [](todo["st"] # <<>> => Ready("st", StatusKinds))

\* C26 witness: the command handler is inside start_forward, the direction
\* stored and the motors not yet driven, and the status thread is in the
\* middle of get_status.
C26_ReadDuringCommand ==
    /\ pc["main"] = "message"
    /\ todo["main"] # <<>>
    /\ Head(todo["main"]).k = "drive"
    /\ motor_hal.current_direction = "FORWARD"
    /\ pc["st"] = "publishing"
    /\ Head(todo["st"]).k = "load_moving"
    /\ snap["st"].direction = "FORWARD"

\* C27: a STATUS command makes on_message run the status path once, at
\* once: get_status and one publish, the steps a tick of the periodic
\* publisher runs; it leaves the backend object, the publisher's sleep and
\* its cycles as they are.
C27_StatusOnDemand ==
    [][/\ (MessageArrives /\ Upper(handled'.text) = TxtStatus)
            => (/\ pc'["main"] = "message"
                /\ todo'["main"] = GetStatusOps \o <<Op("publish", "", 0)>>
                /\ motor_hal' = motor_hal
                /\ nap' = nap
                /\ pc'["st"] = pc["st"]
                /\ budget'.publishes = budget.publishes)
       /\ (pc["main"] = "message" /\ Upper(handled.text) = TxtStatus)
            => motor_hal' = motor_hal
       /\ (pc["st"] # "publishing" /\ pc'["st"] = "publishing")
            => todo'["st"] = GetStatusOps \o <<Op("publish", "", 0)>>]_vars

\* C27 witness: the robot drives forward, the periodic publisher has not
\* run a cycle yet, and the STATUS command has published the movement.
C27_PublishedOnDemand ==
    /\ handled.text = TxtStatus
    /\ pc["main"] = "loop"
    /\ budget.publishes = MaxStatusCycles
    /\ published.timestamp = now
    /\ published.is_moving
    /\ published.direction = "FORWARD"
    /\ published.speed_percent = StartDefaultArg
    /\ motor_hal.is_moving

RequiredFields == {"speed_percent", "direction", "is_moving", "timestamp",
                   "controller_type"}

\* C28: every record handed to the transport has the five required fields:
\* timestamp and controller_type as publish_status set them, and every
\* field of the dictionary get_status returned, the backend's extra fields
\* included, with the value get_status gave it.
C28_RequiredFields ==
    [][published' # published
         => \E t \in Threads :
                /\ StatusStep(t)
                /\ RequiredFields \subseteq DOMAIN published'
                /\ published'.timestamp = now
                /\ published'.controller_type = motor_hal.type
                /\ \A f \in DOMAIN snap[t] : published'[f] = snap[t][f]
                /\ published'.speed_percent \in MinPercent..MaxPercent
                /\ published'.direction \in Directions \cup {"STOPPED"}
                /\ published'.is_moving \in BOOLEAN]_vars

\* C28 witness: a CamJam status with the two wheel speeds and the five
\* required fields has been published while the robot drove.
C28_CamJamRecord ==
    /\ motor_hal.type = "camjam"
    /\ DOMAIN published = RequiredFields \cup {"left_motor_speed", "right_motor_speed"}
    /\ published.controller_type = "camjam"
    /\ published.left_motor_speed = StartDefaultArg
    /\ published.is_moving
    /\ published.direction = "FORWARD"

\* C29: a publish step, failed or not, is the last step of its status
\* path: nothing is retried, the backend object is unchanged, the status
\* thread goes back to its sleep of two seconds with the controller still
\* running, and the main thread goes back to the network loop.
C29_PublishFailureLocal ==
    [][\A t \in Threads :
         (todo[t] # <<>> /\ Head(todo[t]).k = "publish" /\ todo'[t] = Tail(todo[t]))
           => (/\ motor_hal' = motor_hal
               /\ todo'[t] = <<>>
               /\ running'
               /\ pc'["main"] # "done"
               /\ t = "st" => (pc'[t] = "sleep" /\ nap'[t] = StatusInterval)
               /\ t = "main" => pc'[t] = "loop")]_vars

\* C29 witness: both cycles of the publisher have failed, nothing was ever
\* published, the publisher sleeps again, and a START_FORWARD:50 that came
\* after the first failure has set the robot moving.
C29_AfterFailures ==
    /\ published = NoStatus
    /\ budget.publishes = 0
    /\ pc["st"] = "sleep"
    /\ todo["st"] = <<>>
    /\ last_heartbeat > 0
    /\ handled.text = MsgStartForward50
    /\ pc["main"] = "loop"
    /\ motor_hal.out_dir = "FORWARD"
    /\ running


\* C30: on_message is called with the message that has waited longest, and
\* only when the handling of the one before has returned; while a command
\* is being applied no other command is begun.
C30_InArrivalOrder ==
    [][/\ Len(inbox') < Len(inbox)
            => (/\ pc["main"] = "loop"
                /\ todo["main"] = <<>>
                /\ inbox' = Tail(inbox)
                /\ handled'.text = Strip(Head(inbox))
                /\ todo'["main"] = ProcessCommand(Strip(Head(inbox)),
                                                  config.default_speed).ops)
       /\ (pc["main"] = "message" /\ todo["main"] # <<>>)
            => (handled' = handled /\ Len(inbox') >= Len(inbox))]_vars

\* C30 witness: SPEED:90 has been applied in full, the E_STOP that arrived
\* after it is being handled, and the START_FORWARD:50 that arrived last
\* still waits.
C30_SecondOfThree ==
    /\ inbox = <<MsgStartForward50>>
    /\ handled.text = TxtEStop
    /\ handled.before.current_speed = 90
    /\ pc["main"] = "message"
    /\ todo["main"] = StopOps


\* C31: when the configuration file is missing or invalid, or names an
\* unknown controller type, __init__ does not return a controller: no
\* backend is ever made and run() is never entered.
C31_FailFast ==
    (startup.file # "valid" \/ ControllerMap(Lower(startup.json.type)) = "")
        => ("motor_hal" \notin startup.attrs
            /\ pc["main"] \in {"init", "loaded", "failed"})

\* C38: once __init__ has returned, the object has the attributes of the
\* heartbeat state, the running flag and the transport client with its
\* callbacks, which run() and the handlers read.
C38_ConstructedReady ==
    pc["main"] \notin {"init", "loaded", "failed"}
        => ControllerAttributes \subseteq startup.attrs


\* A legacy function has been called and has returned.
LegacyReturned == called.op = "legacy" /\ Idle

\* C32: when forward, backward, left or right has returned from a call with
\* a duration above 0, the motion state is direction = STOPPED,
\* is_moving = false with the stop primitive applied, and while the call
\* slept the robot moved in the function's direction; when it has returned
\* from a call with duration 0, the robot moves in that direction, the
\* motors driven at the default speed of start_*.
C32_LegacyPulse ==
    /\ (LegacyReturned /\ called.p > 0)
         => (Stopped(motor_hal) /\ motor_hal.out_dir = "STOPPED"
             /\ motor_hal.last_prim = "stop")
    /\ (called.op = "legacy" /\ ~Idle /\ Head(todo["main"]).k = "sleep")
         => (/\ motor_hal.is_moving
             /\ motor_hal.current_direction = called.d
             /\ motor_hal.out_dir = called.d)
    /\ (LegacyReturned /\ called.p = 0)
         => (/\ motor_hal.is_moving
             /\ motor_hal.current_direction = called.d
             /\ motor_hal.out_dir = called.d
             /\ motor_hal.out_speed = StartDefaultArg)

\* C32 witness: a pulse of two seconds has gone by and ended, and left()
\* without a duration has then set the robot turning, which it still does.
C32_PulseThenContinuous ==
    /\ LegacyReturned
    /\ called.p = 0
    /\ called.d = "LEFT"
    /\ now = MaxDuration
    /\ motor_hal.is_moving
    /\ motor_hal.out_dir = "LEFT"


\* C33: when the handler of a start or speed command and a stop() of the
\* heartbeat monitor have both returned, no hardware call having raised,
\* the motors are off exactly when is_moving is false, and when on they
\* are driven in current_direction.
C33_DriveAgreesAfterRace ==
    (/\ handled.text # <<>>
     /\ HandledCommand.ok
     /\ HandledCommand.cmd \in MovementCommands
                               \cup {<<"F">>, <<"B">>, <<"L">>, <<"R">>, TxtSpeed}
     /\ pc["main"] = "loop"
     /\ last_reset >= 0
     /\ pc["hb"] = "sleep"
     /\ budget.faults = MaxFaults)
        => (/\ (motor_hal.out_dir = "STOPPED") = ~motor_hal.is_moving
            /\ motor_hal.out_dir # "STOPPED"
                 => motor_hal.out_dir = motor_hal.current_direction)

\* C34: the dictionary the status publisher has read from the backend has
\* is_moving = true exactly when its direction is not STOPPED.
C34_SnapshotConsistent ==
    (todo["st"] # <<>> /\ Head(todo["st"]).k = "publish")
        => snap["st"].is_moving = (snap["st"].direction # "STOPPED")

\* The monitor takes the step k of its timeout handling.
MonitorStep(k) ==
    /\ pc["hb"] = "stopping"
    /\ todo["hb"] # <<>>
    /\ Head(todo["hb"]).k = k
    /\ todo'["hb"] = Tail(todo["hb"])

\* C35: when the monitor applies the stop primitive of its stop(), and when
\* it resets last_heartbeat, the timestamp is still older than the timeout:
\* no command has refreshed it since the monitor's check.
C35_StopOnlyInBreach ==
    [][(MonitorStep("hw_stop") \/ MonitorStep("reset_heartbeat"))
         => now - last_heartbeat > HeartbeatTimeout]_vars

\* C36: while the controller runs with heartbeat monitoring, the monitor
\* thread has not ended, whatever its stop() calls have raised.
C36_MonitorSurvives ==
    (running /\ config.heartbeat_monitoring /\ Alive) => pc["hb"] # "dead"


\* C37: when on_message has returned from a message whose action token,
\* the text before the first ":" in upper case, is STOP, S, EMERGENCY_STOP
\* or E_STOP, no hardware call having raised, the
\* motion state is direction = STOPPED, is_moving = false and the stop
\* primitive is the last one applied, whatever follows the token.
C37_StopTokenStops ==
    (/\ Returned
     /\ (LET c == Upper(handled.text)
         IN IF HasColon(c) THEN SubSeq(c, 1, FirstColon(c) - 1) ELSE c)
            \in {TxtStop, <<"S">>, TxtEmergencyStop, TxtEStop}
     /\ budget.faults = MaxFaults)
        => (/\ Stopped(motor_hal)
            /\ motor_hal.last_prim = "stop"
            /\ motor_hal.out_dir = "STOPPED")


\* C39: set_speed(p) called while the robot is stopped changes nothing of
\* the backend but the stored speed, which becomes p clamped to 0..100:
\* direction and is_moving stay, and the hardware is not touched; stop()
\* leaves the stored speed and the speed_percent reported as they were.
C39_SetSpeedStaysStopped ==
    [][/\ (SetSpeedCalled /\ Stopped(motor_hal))
            => motor_hal' = [motor_hal EXCEPT !.current_speed =
                                IF called'.p < MinPercent THEN MinPercent
                                ELSE IF called'.p > MaxPercent THEN MaxPercent
                                ELSE called'.p]
       /\ StopCalled
            => (/\ motor_hal'.current_speed = motor_hal.current_speed
                /\ StatusSpeed(motor_hal') = StatusSpeed(motor_hal))]_vars

\* C39 witness: the robot had moved and was stopped, and set_speed was then
\* called with more than 100: the speed stored is 100, the robot is
\* stopped and the last primitive applied is still the stop.
C39_SpeedSetWhileStopped ==
    /\ called.op = "set_speed"
    /\ called.p > MaxPercent
    /\ motor_hal.type = "l298"
    /\ motor_hal.current_speed = MaxPercent
    /\ Stopped(motor_hal)
    /\ motor_hal.last_prim = "stop"
    /\ motor_hal.out_dir = "STOPPED"
    /\ motor_hal.out_speed = 0

\* C40: with heartbeat_monitoring disabled the monitor thread is never
\* started, so it never enters stop(); direction, speed and is_moving then
\* change only in a step of the main thread inside a command, the
\* disconnect handler or cleanup().
C40_DisabledNeverStops ==
    /\ [](~config.heartbeat_monitoring => (pc["hb"] = "none" /\ todo["hb"] = <<>>))
    /\ [][(~config.heartbeat_monitoring /\ MotionOf(motor_hal') # MotionOf(motor_hal))
            => (/\ pc["main"] \in {"message", "disconnect", "cleanup"}
                /\ todo["main"] # <<>>
                /\ todo'["main"] = Tail(todo["main"]))]_vars

\* C40 witness: monitoring is disabled, the last message is older than the
\* timeout, and the robot still drives forward with the controller
\* running.
C40_SilentAndMoving ==
    /\ ~config.heartbeat_monitoring
    /\ running
    /\ pc["main"] = "loop"
    /\ now - last_heartbeat > HeartbeatTimeout
    /\ handled.text = MsgStartForward50
    /\ motor_hal.is_moving
    /\ motor_hal.out_dir = "FORWARD"

=============================================================================
